---- MODULE Spec2Model ----
(***************************************************************************)
(* Model of scripts/gen_metadata.py: read_workspace (the workspace-file    *)
(* header reader), process_dir (the recursive directory walk) and main.    *)
(*                                                                         *)
(* Text is a sequence of one-character strings; a file on disk is a        *)
(* sequence of bytes (0..255).  Python values produced by json.loads are   *)
(* records [kind, obj, text]: kind is the JSON type, obj the key -> value  *)
(* mapping of a dict (values kept as compact JSON text) and text the       *)
(* compact JSON text of the whole value.                                   *)
(***************************************************************************)
EXTENDS Integers, Sequences, FiniteSets, TLC

(***************************************************************************)
(* Bounds of the model.                                                    *)
(***************************************************************************)
\* most directory entries (files, directories, others) in the scanned tree
MaxNodes == 2
\* deepest nesting of directories below the root
MaxDepth == 2
\* most blanks put around the version on line 1 of a generated file
MaxPad == 1

(***************************************************************************)
(* Characters, bytes and the UTF-8 codec (ASCII range).                    *)
(***************************************************************************)
NL == "\n"
QT == "\""

AsciiTable ==
  << <<NL, 10>>, <<" ", 32>>, <<QT, 34>>, <<",", 44>>, <<".", 46>>,
     <<"0", 48>>, <<"1", 49>>, <<"9", 57>>, <<":", 58>>, <<"[", 91>>,
     <<"]", 93>>, <<"a", 97>>, <<"e", 101>>, <<"f", 102>>, <<"m", 109>>,
     <<"n", 110>>, <<"o", 111>>, <<"t", 116>>, <<"x", 120>>, <<"{", 123>>,
     <<"}", 125>> >>

Ord(c) ==
  LET i == CHOOSE j \in DOMAIN AsciiTable : AsciiTable[j][1] = c
  IN  AsciiTable[i][2]

IsAscii(b) == \E j \in DOMAIN AsciiTable : AsciiTable[j][2] = b

Chr(b) ==
  LET i == CHOOSE j \in DOMAIN AsciiTable : AsciiTable[j][2] = b
  IN  AsciiTable[i][1]

\* str.encode('utf-8') restricted to the characters of AsciiTable
Utf8Encode(text) == [i \in DOMAIN text |-> Ord(text[i])]

\* the text layer of open(path,'r',encoding='utf-8'): a byte outside the
\* table stands for an undecodable byte (UnicodeDecodeError)
Utf8Decodable(bytes) == \A i \in DOMAIN bytes : IsAscii(bytes[i])

Utf8Decode(bytes) == [i \in DOMAIN bytes |-> Chr(bytes[i])]

(***************************************************************************)
(* json.loads on text: a recursive-descent scanner for objects, arrays,    *)
(* strings and numbers, with the whitespace rules of the json module.      *)
(***************************************************************************)
EmptyObj == [k \in {} |-> <<>>]

ScanFail == [ok |-> FALSE, end |-> 0, kind |-> "none", obj |-> EmptyObj, text |-> <<>>]

IsWs(c) == c \in {" ", NL}

IsDigit(c) == c \in {"0", "1", "9"}

RECURSIVE SkipWs(_, _)
SkipWs(s, i) == IF i <= Len(s) /\ IsWs(s[i]) THEN SkipWs(s, i + 1) ELSE i

RECURSIVE DigitsEnd(_, _)
DigitsEnd(s, i) == IF i <= Len(s) /\ IsDigit(s[i]) THEN DigitsEnd(s, i + 1) ELSE i

\* a JSON string starting at s[i] = '"': no escapes, no control characters
RECURSIVE StringEnd(_, _)
StringEnd(s, i) ==
  IF i > Len(s) \/ s[i] = NL THEN 0
  ELSE IF s[i] = QT THEN i + 1
  ELSE StringEnd(s, i + 1)

ScanString(s, i) ==
  LET e == StringEnd(s, i + 1)
  IN  IF e = 0 THEN ScanFail
      ELSE [ok |-> TRUE, end |-> e, kind |-> "str", obj |-> EmptyObj,
            text |-> SubSeq(s, i, e - 1)]

\* a JSON number starting at the digit s[i]: (0|[1-9][0-9]*)(\.[0-9]+)?
ScanNumber(s, i) ==
  LET ie == IF s[i] = "0" THEN i + 1 ELSE DigitsEnd(s, i)
      fe == IF ie + 1 <= Len(s) /\ s[ie] = "." /\ IsDigit(s[ie + 1])
            THEN DigitsEnd(s, ie + 1) ELSE ie
  IN  [ok |-> TRUE, end |-> fe, kind |-> "num", obj |-> EmptyObj,
       text |-> SubSeq(s, i, fe - 1)]

RECURSIVE ScanValue(_, _)
RECURSIVE ScanMembers(_, _, _, _)
RECURSIVE ScanItems(_, _, _)

\* members of an object from the key at s[i]; obj and text accumulate
ScanMembers(s, i, obj, text) ==
  IF i > Len(s) \/ s[i] # QT THEN ScanFail
  ELSE
    LET k == ScanString(s, i)
    IN  IF ~k.ok THEN ScanFail
        ELSE
          LET c == SkipWs(s, k.end)
          IN  IF c > Len(s) \/ s[c] # ":" THEN ScanFail
              ELSE
                LET v == ScanValue(s, SkipWs(s, c + 1))
                IN  IF ~v.ok THEN ScanFail
                    ELSE
                      LET key  == SubSeq(s, i + 1, k.end - 2)
                          obj2 == [x \in (DOMAIN obj) \cup {key} |->
                                     IF x = key THEN v.text ELSE obj[x]]
                          txt2 == text \o k.text \o <<":">> \o v.text
                          m    == SkipWs(s, v.end)
                      IN  IF m > Len(s) THEN ScanFail
                          ELSE IF s[m] = "}"
                          THEN [ok |-> TRUE, end |-> m + 1, kind |-> "obj",
                                obj |-> obj2, text |-> txt2 \o <<"}">>]
                          ELSE IF s[m] = ","
                          THEN ScanMembers(s, SkipWs(s, m + 1), obj2, txt2 \o <<",">>)
                          ELSE ScanFail

\* items of an array from the value at s[i]; text accumulates
ScanItems(s, i, text) ==
  LET v == ScanValue(s, i)
  IN  IF ~v.ok THEN ScanFail
      ELSE
        LET m == SkipWs(s, v.end)
        IN  IF m > Len(s) THEN ScanFail
            ELSE IF s[m] = "]"
            THEN [ok |-> TRUE, end |-> m + 1, kind |-> "arr", obj |-> EmptyObj,
                  text |-> text \o v.text \o <<"]">>]
            ELSE IF s[m] = ","
            THEN ScanItems(s, SkipWs(s, m + 1), text \o v.text \o <<",">>)
            ELSE ScanFail

ScanValue(s, i) ==
  IF i > Len(s) THEN ScanFail
  ELSE IF s[i] = QT THEN ScanString(s, i)
  ELSE IF s[i] = "{" THEN
    LET j == SkipWs(s, i + 1)
    IN  IF j <= Len(s) /\ s[j] = "}"
        THEN [ok |-> TRUE, end |-> j + 1, kind |-> "obj", obj |-> EmptyObj,
              text |-> <<"{", "}">>]
        ELSE ScanMembers(s, j, EmptyObj, <<"{">>)
  ELSE IF s[i] = "[" THEN
    LET j == SkipWs(s, i + 1)
    IN  IF j <= Len(s) /\ s[j] = "]"
        THEN [ok |-> TRUE, end |-> j + 1, kind |-> "arr", obj |-> EmptyObj,
              text |-> <<"[", "]">>]
        ELSE ScanItems(s, j, <<"[">>)
  ELSE IF IsDigit(s[i]) THEN ScanNumber(s, i)
  ELSE ScanFail

\* json.loads(s): ok = FALSE stands for json.decoder.JSONDecodeError
json_loads(s) ==
  LET v == ScanValue(s, SkipWs(s, 1))
  IN  IF v.ok /\ SkipWs(s, v.end) = Len(s) + 1
      THEN [ok |-> TRUE, kind |-> v.kind, obj |-> v.obj, text |-> v.text]
      ELSE [ok |-> FALSE, kind |-> "none", obj |-> EmptyObj, text |-> <<>>]

PyNone == [kind |-> "None", obj |-> EmptyObj, text |-> <<>>]

PyValue(v) == [kind |-> v.kind, obj |-> v.obj, text |-> v.text]

\* the Python literal {}
PyEmptyDict == [kind |-> "obj", obj |-> EmptyObj, text |-> <<"{", "}">>]

(***************************************************************************)
(* str and file-object helpers used by read_workspace and process_dir.     *)
(***************************************************************************)
RECURSIVE LStrip(_)
LStrip(s) == IF s # <<>> /\ IsWs(Head(s)) THEN LStrip(Tail(s)) ELSE s

RECURSIVE RStrip(_)
RStrip(s) == IF s # <<>> /\ IsWs(s[Len(s)]) THEN RStrip(SubSeq(s, 1, Len(s) - 1)) ELSE s

StripNothing(s) == s

\* str.strip()
Strip(s) == RStrip(LStrip(s))

\* str.endswith(suffix)
EndsWith(s, suffix) ==
  /\ Len(s) >= Len(suffix)
  /\ SubSeq(s, Len(s) - Len(suffix) + 1, Len(s)) = suffix

RECURSIVE LineEnd(_, _)
LineEnd(t, pos) ==
  IF pos > Len(t) THEN Len(t)
  ELSE IF t[pos] = NL THEN pos
  ELSE LineEnd(t, pos + 1)

\* f.readline() at position pos: the line with its newline, and the new position
ReadLine(t, pos) ==
  LET e == LineEnd(t, pos)
  IN  [line |-> SubSeq(t, pos, e), pos |-> e + 1]

\* f.read() at position pos
ReadAll(t, pos) == SubSeq(t, pos, Len(t))

\* os.path.join(path, p)
PathJoin(path, p) == path \o <<"/">> \o p

RECURSIVE BaseName(_)
\* os.path.basename(path)
BaseName(path) ==
  IF \E i \in DOMAIN path : path[i] = "/"
  THEN BaseName(Tail(path))
  ELSE path

(***************************************************************************)
(* gzip: the two magic bytes followed by the compressed body.  Compression *)
(* is modelled as the byte-wise complement, so a compressed body is never  *)
(* readable as UTF-8 text and a text body never decompresses.              *)
(***************************************************************************)
GzipMagic == <<31, 139>>

gzip_compress(bytes) == GzipMagic \o [i \in DOMAIN bytes |-> 255 - bytes[i]]

GzipBody(bytes) == SubSeq(bytes, 3, Len(bytes))

\* FALSE stands for gzip.BadGzipFile
GzipValid(bytes) ==
  /\ Len(bytes) >= 2
  /\ SubSeq(bytes, 1, 2) = GzipMagic
  /\ \A i \in DOMAIN GzipBody(bytes) : GzipBody(bytes)[i] >= 128

gzip_decompress(bytes) == [i \in DOMAIN GzipBody(bytes) |-> 255 - GzipBody(bytes)[i]]

\* f.read(2) on the file opened 'rb'
ReadMagic(bytes) == SubSeq(bytes, 1, IF Len(bytes) < 2 THEN Len(bytes) ELSE 2)

IsSwappedMagic(magic_number) == magic_number = <<139, 31>>

\* magic_number == b'\x1f\x8b'
IsGzipMagic(magic_number) == magic_number = GzipMagic

\* the text that the stream returned by open_func() delivers, or the error
\* its first read raises
OpenFunc(gz, bytes) ==
  IF gz
  THEN IF ~GzipValid(bytes) THEN [exc |-> "BadGzipFile", text |-> <<>>]
       ELSE IF ~Utf8Decodable(gzip_decompress(bytes))
       THEN [exc |-> "UnicodeDecodeError", text |-> <<>>]
       ELSE [exc |-> "none", text |-> Utf8Decode(gzip_decompress(bytes))]
  ELSE IF ~Utf8Decodable(bytes)
       THEN [exc |-> "UnicodeDecodeError", text |-> <<>>]
       ELSE [exc |-> "none", text |-> Utf8Decode(bytes)]

WithExitLeaks(hs, h) == hs

\* __exit__ of a with-block over handle h
WithExit(hs, h) == hs \ {h}

(***************************************************************************)
(* The inputs: logical contents of workspace files, built by serialising   *)
(* a version, a header and a payload.                                      *)
(***************************************************************************)
Quote(s) == <<QT>> \o s \o <<QT>>

RECURSIVE JoinPairs(_)
JoinPairs(pairs) ==
  IF pairs = <<>> THEN <<>>
  ELSE Quote(pairs[1][1]) \o <<":", " ">> \o pairs[1][2]
         \o (IF Len(pairs) > 1 THEN <<",", " ">> ELSE <<>>)
         \o JoinPairs(Tail(pairs))

\* json.dumps of a dict given as a sequence of <<key, value text>>
json_dumps(pairs) == <<"{">> \o JoinPairs(pairs) \o <<"}">>

\* the dict that a sequence of <<key, value text>> denotes
ToDict(pairs) ==
  [k \in {pairs[i][1] : i \in DOMAIN pairs} |->
     pairs[CHOOSE i \in DOMAIN pairs :
             pairs[i][1] = k /\ \A j \in DOMAIN pairs : pairs[j][1] = k => j <= i][2]]

Blanks(n) == [i \in 1..n |-> " "]

KeyName == <<"n", "a", "m", "e">>
KeyExt == <<"e", "x", "t">>
KeyVersion == <<"v", "e", "r", "s", "i", "o", "n">>

Versions == { <<"0", ".", "9", ".", "0">>, <<"1", ".", "0">> }

\* headers that are JSON objects
HeaderPairs ==
  { <<>>,
    << <<KeyExt, <<"[", QT, "x", QT, "]">> >> >>,
    << <<KeyName, Quote(<<"o">>)>>, <<KeyExt, <<"[", "]">> >> >> }

\* headers that are valid JSON but no object
OtherHeaders == { <<"[", "1", "]">>, <<"1">>, Quote(<<"x">>) }

GoodPayloads == { <<"{", "}">>, <<"[", "1", ",", " ", "1", "0", "]", NL>> }
BadPayloads == { <<>>, <<"{">>, <<"]", NL>> }

VersionedText(ver, lpad, rpad, hdr, payload) ==
  Blanks(lpad) \o ver \o Blanks(rpad) \o <<NL>> \o hdr \o <<NL>> \o payload

\* a content: fmt tells how it was built, ver and hdr what it was built from
VersionedSet(vers, lpads, rpads, payloads) ==
  { [fmt |-> "versioned", ver |-> v, hdr |-> ToDict(h), payloadOk |-> (p \in GoodPayloads),
     text |-> VersionedText(v, l, r, json_dumps(h), p)] :
      v \in vers, l \in lpads, r \in rpads, h \in HeaderPairs, p \in payloads }

VersionedFiles ==
  VersionedSet(Versions, 0..MaxPad, 0..MaxPad, GoodPayloads \cup BadPayloads)

OtherHeaderSet(vers, hdrs) ==
  { [fmt |-> "otherheader", ver |-> v, hdr |-> EmptyObj, payloadOk |-> TRUE,
     text |-> VersionedText(v, 0, 0, h, <<"{", "}">>)] : v \in vers, h \in hdrs }

OtherHeaderFiles == OtherHeaderSet(Versions, OtherHeaders)

\* legacy files: one JSON document, on one line or spread over several
LegacyOneLine == <<"{", QT, "f", "o", "o", QT, ":", "1", "}">>
LegacyIndented == <<"{", NL, " ", QT, "f", "o", "o", QT, ":", " ", "1", NL, "}", NL>>
LegacySplit == <<"[", NL, "1", NL, "]">>

LegacyTexts ==
  { LegacyOneLine, LegacyIndented, LegacySplit,
    <<"{", QT, "f", "o", "o", QT, ":", " ", "1", "}", NL>>,
    <<"[", "1", ",", "1", "]">>,
    <<"1", "0">>,
    <<"[", NL, " ", "1", ",", NL, " ", "1", NL, "]">>,
    <<"{", QT, "a", QT, ":", NL, "{", "}", NL, "}">> }

LegacySet(texts) ==
  { [fmt |-> "legacy", ver |-> <<>>, hdr |-> EmptyObj, payloadOk |-> TRUE, text |-> t] :
      t \in texts }

LegacyFiles == LegacySet(LegacyTexts)

\* neither a header on line 2 nor one JSON document
CorruptBrace == <<"{">>
CorruptHeader == <<"0", ".", "9", NL, "{", QT, "e", NL, "{", "}">>

CorruptTexts == { CorruptBrace, CorruptHeader, <<>>, <<"x", "x", NL, "x">> }

CorruptSet(texts) ==
  { [fmt |-> "corrupt", ver |-> <<>>, hdr |-> EmptyObj, payloadOk |-> FALSE, text |-> t] :
      t \in texts }

CorruptFiles == CorruptSet(CorruptTexts)

Library == VersionedFiles \cup OtherHeaderFiles \cup LegacyFiles \cup CorruptFiles

Encodings == {"plain", "gzip"}

\* the bytes on disk of a text in an encoding
Encode(enc, text) ==
  IF enc = "gzip" THEN gzip_compress(Utf8Encode(text)) ELSE Utf8Encode(text)

Line2(text) == ReadLine(text, ReadLine(text, 1).pos).line

(***************************************************************************)
(* The state.                                                              *)
(***************************************************************************)
VARIABLES
  mainpc,    \* where main() is: "start", "walking", "walked", "opened", "done",
             \* "failed"; "harness" when read_workspace is driven directly
  stack,     \* the active process_dir calls, innermost last
  rw,        \* the active read_workspace call and its locals
  handles,   \* the file handles that are open
  error,     \* the exception in flight, "none" when there is none
  metadata,  \* main's local `metadata`: <<>> before the walk returned
  output,    \* the metadata.json file on disk
  nodes,     \* directory entries listed so far
  job,       \* the file that read_workspace was last called on
  last,      \* what lines 110-112 last did with a file
  ret,       \* the last record returned by process_dir, with its listing
  results    \* the outcomes of the direct read_workspace calls

vars == <<mainpc, stack, rw, handles, error, metadata, output, nodes, job, last, ret, results>>

LegacyVersion == <<"0", ".", "9", ".", "0">>

Extension == <<".", "g", "r", "a", "p", "y", "c", "a", "l">>

\* the directory `files` below the repository root
Workspaces == <<"f", "i", "l", "e", "s">>

Names == { <<"a">> \o Extension, <<"b">> \o Extension, <<"n", ".", "t", "x", "t">> }

\* what os.path.isdir / os.path.isfile tell about an entry: a directory, a
\* regular file, or neither (fifo, socket, device, dangling link)
Kinds == {"dir", "file", "other"}

Entries(allowDirs) ==
  [name : Names, kind : IF allowDirs THEN Kinds ELSE Kinds \ {"dir"}]

\* the results os.listdir can give: at most n entries with distinct names
Listings(n, allowDirs) ==
  UNION { { l \in [1..k -> Entries(allowDirs)] :
              \A i, j \in 1..k : i < j => l[i].name # l[j].name } : k \in 0..n }

\* the contents found in the files of the scanned tree: one of each header,
\* legacy documents on one and on several lines, and corrupt files
WalkContents ==
  VersionedSet({<<"1", ".", "0">>}, {MaxPad}, {0}, {<<"{", "}">>})
    \cup OtherHeaderSet({<<"1", ".", "0">>}, {<<"[", "1", "]">>, <<"1">>})
    \cup LegacySet({LegacyOneLine, LegacyIndented, LegacySplit})
    \cup CorruptSet({CorruptBrace, CorruptHeader})

\* the reads the walk can meet: any content as plain text, some of them
\* gzip-compressed, or a file that cannot be opened
WalkReads ==
  [src : WalkContents, enc : {"plain"}, fault : {"none"}]
    \cup [src : {f \in WalkContents : f.fmt = "versioned" /\ f.hdr # EmptyObj}
                  \cup LegacySet({LegacyOneLine}),
          enc : {"gzip"}, fault : {"none"}]
    \cup [src : {CHOOSE f \in WalkContents : f.fmt = "versioned" /\ f.hdr = EmptyObj},
          enc : {"plain"}, fault : {"probe", "stream"}]

RwIdle ==
  [pc |-> "idle", path |-> <<>>, bytes |-> <<>>, metadata_only |-> TRUE,
   fault |-> "none", gz |-> FALSE, version |-> <<>>, metadata |-> PyNone,
   data |-> PyNone, parsed |-> FALSE, exc |-> "none"]

RwStart(path, bytes, metadata_only, fault) ==
  [RwIdle EXCEPT !.pc = "open_probe", !.path = path, !.bytes = bytes,
                 !.metadata_only = metadata_only, !.fault = fault]

NoJob ==
  [src |-> CHOOSE f \in Library : f.text = <<>>, enc |-> "plain",
   metadata_only |-> TRUE, path |-> <<>>]

NoLast ==
  [outcome |-> "none", p |-> <<>>, src |-> NoJob.src, fault |-> "none",
   version |-> <<>>, metadata |-> PyNone, entry |-> EmptyObj]

Frame(path) ==
  [path |-> path, listed |-> FALSE, listing |-> <<>>, idx |-> 1,
   files |-> <<>>, folders |-> <<>>]

Top == stack[Len(stack)]

SetTop(f) == [stack EXCEPT ![Len(stack)] = f]

(***************************************************************************)
(* read_workspace, lines 64-90.                                            *)
(***************************************************************************)
RwRaise(exc) == [rw EXCEPT !.pc = "raised", !.exc = exc]

\* line 66: open(path,'rb')
RwOpenProbe ==
  /\ rw.pc = "open_probe"
  /\ IF rw.fault = "probe"
     THEN /\ rw' = RwRaise("OSError")
          /\ UNCHANGED handles
     ELSE /\ rw' = [rw EXCEPT !.pc = "read_magic"]
          /\ handles' = handles \cup {"probe"}
  /\ UNCHANGED <<mainpc, stack, error, metadata, output, nodes, job, last, ret, results>>

\* lines 67-71: read the magic number, leave the with-block, choose open_func
RwReadMagic ==
  /\ rw.pc = "read_magic"
  /\ rw' = [rw EXCEPT !.pc = "open_stream", !.gz = IsGzipMagic(ReadMagic(rw.bytes))]
  /\ handles' = WithExit(handles, "probe")
  /\ UNCHANGED <<mainpc, stack, error, metadata, output, nodes, job, last, ret, results>>

\* line 73: open_func()
RwOpenStream ==
  /\ rw.pc = "open_stream"
  /\ IF rw.fault = "stream"
     THEN /\ rw' = RwRaise("OSError")
          /\ UNCHANGED handles
     ELSE /\ rw' = [rw EXCEPT !.pc = "try"]
          /\ handles' = handles \cup {"stream"}
  /\ UNCHANGED <<mainpc, stack, error, metadata, output, nodes, job, last, ret, results>>

\* lines 76-79: the try block and its except clause
RwTry ==
  /\ rw.pc = "try"
  /\ LET f  == OpenFunc(rw.gz, rw.bytes)
         l1 == ReadLine(f.text, 1)
         l2 == ReadLine(f.text, l1.pos)
         m  == json_loads(l2.line)
     IN  IF f.exc # "none"
         THEN /\ rw' = RwRaise(f.exc)
              /\ handles' = WithExit(handles, "stream")
         ELSE /\ rw' = IF m.ok
                       THEN [rw EXCEPT !.pc = "versioned", !.version = Strip(l1.line),
                                       !.metadata = PyValue(m)]
                       ELSE [rw EXCEPT !.pc = "fallback", !.version = Strip(l1.line)]
              /\ UNCHANGED handles
  /\ UNCHANGED <<mainpc, stack, error, metadata, output, nodes, job, last, ret, results>>

FallbackAlwaysParses(metadata_only) == TRUE

\* data = json.loads(f.read()) if not metadata_only else None, line 83
FallbackParses(metadata_only) == ~metadata_only

\* lines 80-84: the legacy format, returning from inside the with-block
RwFallback ==
  /\ rw.pc = "fallback"
  /\ LET f == OpenFunc(rw.gz, rw.bytes)
         d == json_loads(ReadAll(f.text, 1))
     IN  rw' = IF ~FallbackParses(rw.metadata_only)
               THEN [rw EXCEPT !.pc = "returned", !.version = LegacyVersion,
                               !.metadata = PyEmptyDict, !.data = PyNone]
               ELSE IF d.ok
               THEN [rw EXCEPT !.pc = "returned", !.version = LegacyVersion,
                               !.metadata = PyEmptyDict, !.data = PyValue(d),
                               !.parsed = TRUE]
               ELSE [rw EXCEPT !.pc = "raised", !.exc = "JSONDecodeError",
                               !.version = LegacyVersion, !.metadata = PyEmptyDict,
                               !.parsed = TRUE]
  /\ handles' = WithExit(handles, "stream")
  /\ UNCHANGED <<mainpc, stack, error, metadata, output, nodes, job, last, ret, results>>

VersionedAlwaysParses(metadata_only) == TRUE

\* data = json.loads(f.readline()) if not metadata_only else None, line 89
VersionedParses(metadata_only) == ~metadata_only

\* lines 86-90: the versioned format
RwVersioned ==
  /\ rw.pc = "versioned"
  /\ LET f  == OpenFunc(rw.gz, rw.bytes)
         l1 == ReadLine(f.text, 1)
         l2 == ReadLine(f.text, l1.pos)
         l3 == ReadLine(f.text, l2.pos)
         m  == json_loads(l2.line)
         d  == json_loads(l3.line)
     IN  rw' = IF ~VersionedParses(rw.metadata_only)
               THEN [rw EXCEPT !.pc = "returned", !.version = Strip(l1.line),
                               !.metadata = PyValue(m), !.data = PyNone]
               ELSE IF d.ok
               THEN [rw EXCEPT !.pc = "returned", !.version = Strip(l1.line),
                               !.metadata = PyValue(m), !.data = PyValue(d),
                               !.parsed = TRUE]
               ELSE [rw EXCEPT !.pc = "raised", !.exc = "JSONDecodeError",
                               !.version = Strip(l1.line), !.metadata = PyValue(m),
                               !.parsed = TRUE]
  /\ handles' = WithExit(handles, "stream")
  /\ UNCHANGED <<mainpc, stack, error, metadata, output, nodes, job, last, ret, results>>

RwStep == RwOpenProbe \/ RwReadMagic \/ RwOpenStream \/ RwTry \/ RwFallback \/ RwVersioned

(***************************************************************************)
(* process_dir, lines 99-118.                                              *)
(***************************************************************************)
Walking == mainpc = "walking" /\ error = "none" /\ rw.pc = "idle" /\ stack # <<>>

HasChild == Top.listed /\ Top.idx <= Len(Top.listing)

Child == Top.listing[Top.idx]

full_path == PathJoin(Top.path, Child.name)

\* os.path.isdir(full_path), line 107
IsDir(child) == child.kind = "dir"

IsAnyFile(child, path) == child.kind = "file"

\* os.path.isfile(full_path) and full_path.endswith('.grapycal'), line 109
IsWorkspaceFile(child, path) == child.kind = "file" /\ EndsWith(path, Extension)

NeedsExtensions(md) == md.kind = "obj" /\ KeyExt \in DOMAIN md.obj

\* metadata['name'] = p works on a dict only (TypeError otherwise), line 111
SupportsItemAssignment(md) == md.kind = "obj"

\* the dict after metadata['name'] = p
SetName(obj, p) ==
  [k \in (DOMAIN obj) \cup {KeyName} |-> IF k = KeyName THEN Quote(p) ELSE obj[k]]

\* line 105: os.listdir(path), which may fail
ListDir ==
  /\ Walking
  /\ ~Top.listed
  /\ \/ /\ error' = "OSError"
        /\ UNCHANGED <<stack, nodes>>
     \/ \E l \in Listings(MaxNodes - nodes, Len(stack) <= MaxDepth) :
          /\ stack' = SetTop([Top EXCEPT !.listed = TRUE, !.listing = l])
          /\ nodes' = nodes + Len(l)
          /\ UNCHANGED error
  /\ UNCHANGED <<mainpc, rw, handles, metadata, output, job, last, ret, results>>

\* lines 107-108: the recursive call on a directory
Descend ==
  /\ Walking
  /\ HasChild
  /\ IsDir(Child)
  /\ stack' = Append(stack, Frame(full_path))
  /\ UNCHANGED <<mainpc, rw, handles, error, metadata, output, nodes, job, last, ret, results>>

\* lines 109-110: the call of read_workspace on a file found on disk
CallRead ==
  /\ Walking
  /\ HasChild
  /\ ~IsDir(Child)
  /\ IsWorkspaceFile(Child, full_path)
  /\ \E r \in WalkReads :
       /\ rw' = RwStart(full_path, Encode(r.enc, r.src.text), TRUE, r.fault)
       /\ job' = [src |-> r.src, enc |-> r.enc, metadata_only |-> TRUE, path |-> full_path]
  /\ UNCHANGED <<mainpc, stack, handles, error, metadata, output, nodes, last, ret, results>>

\* lines 107-109: an entry that is neither a directory nor a workspace file
SkipChild ==
  /\ Walking
  /\ HasChild
  /\ ~IsDir(Child)
  /\ ~IsWorkspaceFile(Child, full_path)
  /\ stack' = SetTop([Top EXCEPT !.idx = @ + 1])
  /\ UNCHANGED <<mainpc, rw, handles, error, metadata, output, nodes, job, last, ret, results>>

\* lines 110-112: read_workspace returned
FileDone ==
  /\ mainpc = "walking"
  /\ rw.pc = "returned"
  /\ IF SupportsItemAssignment(rw.metadata)
     THEN LET entry == SetName(rw.metadata.obj, Child.name)
          IN  /\ stack' = SetTop([Top EXCEPT !.files = Append(@, entry), !.idx = @ + 1])
              /\ last' = [outcome |-> "appended", p |-> Child.name, src |-> job.src,
                          fault |-> rw.fault, version |-> rw.version,
                          metadata |-> rw.metadata, entry |-> entry]
              /\ UNCHANGED error
     ELSE /\ error' = "TypeError"
          /\ last' = [outcome |-> "TypeError", p |-> Child.name, src |-> job.src,
                      fault |-> rw.fault, version |-> rw.version,
                      metadata |-> rw.metadata, entry |-> EmptyObj]
          /\ UNCHANGED stack
  /\ rw' = RwIdle
  /\ UNCHANGED <<mainpc, handles, metadata, output, nodes, job, ret, results>>

\* line 110: read_workspace raised; process_dir has no handler
FileRaise ==
  /\ mainpc = "walking"
  /\ rw.pc = "raised"
  /\ error' = rw.exc
  /\ last' = [NoLast EXCEPT !.outcome = "raised", !.p = Child.name, !.src = job.src,
                             !.fault = rw.fault]
  /\ rw' = RwIdle
  /\ UNCHANGED <<mainpc, stack, handles, metadata, output, nodes, job, ret, results>>

\* lines 114-118, and line 108 or 133 in the caller
ReturnDir ==
  /\ Walking
  /\ Top.listed
  /\ Top.idx > Len(Top.listing)
  /\ LET rec == [name |-> BaseName(Top.path), files |-> Top.files, dirs |-> Top.folders]
     IN  /\ ret' = <<[rec |-> rec, listing |-> Top.listing]>>
         /\ IF Len(stack) = 1
            THEN /\ stack' = <<>>
                 /\ metadata' = <<rec>>
                 /\ mainpc' = "walked"
            ELSE /\ stack' = [SubSeq(stack, 1, Len(stack) - 1) EXCEPT
                                ![Len(stack) - 1] =
                                   [@ EXCEPT !.folders = Append(@, rec), !.idx = @ + 1]]
                 /\ UNCHANGED <<metadata, mainpc>>
  /\ UNCHANGED <<rw, handles, error, output, nodes, job, last, results>>

\* an exception leaves a process_dir call
Unwind ==
  /\ mainpc = "walking"
  /\ error # "none"
  /\ stack # <<>>
  /\ stack' = SubSeq(stack, 1, Len(stack) - 1)
  /\ UNCHANGED <<mainpc, rw, handles, error, metadata, output, nodes, job, last, ret, results>>

(***************************************************************************)
(* main, lines 120-136.                                                    *)
(***************************************************************************)
\* line 133: metadata = process_dir(workspaces)
MainCall ==
  /\ mainpc = "start"
  /\ stack' = <<Frame(Workspaces)>>
  /\ mainpc' = "walking"
  /\ UNCHANGED <<rw, handles, error, metadata, output, nodes, job, last, ret, results>>

\* the exception leaves main
MainFail ==
  /\ mainpc = "walking"
  /\ error # "none"
  /\ stack = <<>>
  /\ mainpc' = "failed"
  /\ UNCHANGED <<stack, rw, handles, error, metadata, output, nodes, job, last, ret, results>>

OutputOpenableAfterFailure(pc) == pc \in {"walked", "failed"}

\* line 135 comes after line 133
OutputOpenable(pc) == pc = "walked"

\* line 135: open(metadata_file,'w') truncates the file
MainOpen ==
  /\ OutputOpenable(mainpc)
  /\ output' = [state |-> "empty", doc |-> <<>>]
  /\ mainpc' = "opened"
  /\ UNCHANGED <<stack, rw, handles, error, metadata, nodes, job, last, ret, results>>

\* line 136: json.dump(metadata,f,indent=4)
MainDump ==
  /\ mainpc = "opened"
  /\ output' = [state |-> "written", doc |-> metadata]
  /\ mainpc' = "done"
  /\ UNCHANGED <<stack, rw, handles, error, metadata, nodes, job, last, ret, results>>

(***************************************************************************)
(* read_workspace called directly, on the plain and on the gzip encoding   *)
(* of one content.                                                         *)
(***************************************************************************)
NoOutcome ==
  [done |-> FALSE, exc |-> "none", version |-> <<>>, metadata |-> PyNone,
   data |-> PyNone, parsed |-> FALSE, gz |-> FALSE]

Outcome(r) ==
  [done |-> TRUE, exc |-> r.exc, version |-> r.version, metadata |-> r.metadata,
   data |-> r.data, parsed |-> r.parsed, gz |-> r.gz]

DirectCall ==
  /\ mainpc = "harness"
  /\ rw.pc = "idle"
  /\ \E enc \in Encodings :
       /\ ~results[enc].done
       /\ rw' = RwStart(job.path, Encode(enc, job.src.text), job.metadata_only, "none")
       /\ job' = [job EXCEPT !.enc = enc]
  /\ UNCHANGED <<mainpc, stack, handles, error, metadata, output, nodes, last, ret, results>>

DirectReturn ==
  /\ mainpc = "harness"
  /\ rw.pc \in {"returned", "raised"}
  /\ results' = [results EXCEPT ![job.enc] = Outcome(rw)]
  /\ rw' = RwIdle
  /\ UNCHANGED <<mainpc, stack, handles, error, metadata, output, nodes, job, last, ret>>

(***************************************************************************)
(* The specifications.                                                     *)
(***************************************************************************)
InitCommon ==
  /\ stack = <<>>
  /\ rw = RwIdle
  /\ handles = {}
  /\ error = "none"
  /\ metadata = <<>>
  /\ nodes = 0
  /\ last = NoLast
  /\ ret = <<>>
  /\ results = [enc \in Encodings |-> NoOutcome]

\* main() starts; metadata.json is absent or left by an earlier run
InitMain ==
  /\ InitCommon
  /\ mainpc = "start"
  /\ output \in {[state |-> "absent", doc |-> <<>>], [state |-> "stale", doc |-> <<>>]}
  /\ job = NoJob

\* read_workspace is called on a content of the library, in either mode
InitRead ==
  /\ InitCommon
  /\ mainpc = "harness"
  /\ output = [state |-> "absent", doc |-> <<>>]
  /\ job \in [src : Library, enc : {"plain"}, metadata_only : BOOLEAN,
              path : {<<"a">> \o Extension, <<"a", ".", "g", "z">>}]

Init == InitMain \/ InitRead

NextRead == RwStep \/ DirectCall \/ DirectReturn

Next ==
  \/ MainCall \/ ListDir \/ Descend \/ CallRead \/ SkipChild \/ FileDone
  \/ FileRaise \/ ReturnDir \/ Unwind \/ MainFail \/ MainOpen \/ MainDump
  \/ NextRead

Spec == Init /\ [][Next]_vars

SpecRead == InitRead /\ [][NextRead]_vars

(***************************************************************************)
(* Notions used by the properties.                                         *)
(***************************************************************************)
\* neither a JSON header on line 2 nor one JSON document
IsCorrupt(text) == ~json_loads(Line2(text)).ok /\ ~json_loads(text).ok

\* the whole content is one JSON document
IsLegacy(text) == json_loads(text).ok

\* built as a version line, a header line and a payload
IsVersionedBuild(src) == src.fmt \in {"versioned", "otherheader"}

Finished(enc) == results[enc].done

\* the names in a list of file entries, of records, of directory entries
EntryNames(files) == [i \in DOMAIN files |-> files[i][KeyName]]
RecordNames(dirs) == [i \in DOMAIN dirs |-> dirs[i].name]
QuotedNames(listing) == [i \in DOMAIN listing |-> Quote(listing[i].name)]
PlainNames(listing) == [i \in DOMAIN listing |-> listing[i].name]

PopOf(st) == SubSeq(st, 1, Len(st) - 1)

(***************************************************************************)
(* C1.  As claimed: a corrupt .grapycal file makes the scan fail, so       *)
(* read_workspace never returns for it inside a walk and no entry is       *)
(* appended for it.                                                        *)
(***************************************************************************)
C1_CorruptFileFailsScan ==
  /\ (mainpc = "walking" /\ rw.pc = "returned") => ~IsCorrupt(job.src.text)
  /\ last.outcome = "appended" => ~IsCorrupt(last.src.text)

(***************************************************************************)
(* C1, amended.  In a walk read_workspace runs in metadata-only mode, so a *)
(* corrupt file takes the legacy fallback unparsed: the call returns       *)
(* ("0.9.0", {}, None), process_dir appends the entry {name: filename} and *)
(* the scan goes on.                                                       *)
(***************************************************************************)
C1_CorruptFileIndexedAsLegacy ==
  /\ (mainpc = "walking" /\ rw.pc \in {"returned", "raised"} /\ rw.fault = "none"
        /\ IsCorrupt(job.src.text))
       => /\ rw.pc = "returned"
          /\ rw.version = LegacyVersion
          /\ rw.metadata = PyEmptyDict
          /\ rw.data = PyNone
          /\ ~rw.parsed
  /\ (last.outcome # "none" /\ last.fault = "none" /\ IsCorrupt(last.src.text))
       => /\ last.outcome = "appended"
          /\ last.entry = SetName(EmptyObj, last.p)

C1_Witness ==
  /\ mainpc = "done"
  /\ output.state = "written"
  /\ last.outcome = "appended"
  /\ IsCorrupt(last.src.text)
  /\ last.src.text # <<>>

(***************************************************************************)
(* C2.  As claimed: every entry appended to files is the header plus a     *)
(* name field equal to the filename and a version field equal to the       *)
(* version read_workspace returned.                                        *)
(***************************************************************************)
C2_EntryHasNameAndVersion ==
  last.outcome = "appended" =>
    /\ last.entry[KeyName] = Quote(last.p)
    /\ \A k \in DOMAIN last.metadata.obj :
         k \notin {KeyName, KeyVersion} => last.entry[k] = last.metadata.obj[k]
    /\ KeyVersion \in DOMAIN last.entry
    /\ last.entry[KeyVersion] = Quote(last.version)

(***************************************************************************)
(* C3.  As claimed: for every legacy file (one JSON document, on one line  *)
(* or on several) read_workspace returns version "0.9.0" and metadata {},  *)
(* and the parsed document when the payload is requested.                  *)
(***************************************************************************)
C3_LegacyReadAsLegacy ==
  \A enc \in Encodings :
    (Finished(enc) /\ job.src.fmt = "legacy" /\ IsLegacy(job.src.text)) =>
      /\ results[enc].exc = "none"
      /\ results[enc].version = LegacyVersion
      /\ results[enc].metadata = PyEmptyDict
      /\ results[enc].data =
           IF job.metadata_only THEN PyNone ELSE PyValue(json_loads(job.src.text))

(***************************************************************************)
(* C4.  For a file built from a version, an object header and a payload,   *)
(* read_workspace returns the version without the blanks around it and     *)
(* the header as a dict, in either encoding: in metadata-only mode         *)
(* whatever the payload is, otherwise whenever the payload is JSON.        *)
(***************************************************************************)
C4_VersionedHeaderExact ==
  \A enc \in Encodings :
    (Finished(enc) /\ job.src.fmt = "versioned"
       /\ (job.metadata_only \/ job.src.payloadOk)) =>
      /\ results[enc].exc = "none"
      /\ results[enc].version = job.src.ver
      /\ results[enc].metadata.kind = "obj"
      /\ results[enc].metadata.obj = job.src.hdr

C4_Witness ==
  /\ Finished("gzip")
  /\ job.enc = "gzip"
  /\ job.src.fmt = "versioned"
  /\ job.src.text[1] = " "
  /\ job.src.hdr # EmptyObj
  /\ ~job.src.payloadOk
  /\ results["gzip"].version = job.src.ver

(***************************************************************************)
(* C5.  A metadata-only read never parses the payload, on the versioned    *)
(* and on the legacy path: data is None and no payload, however malformed, *)
(* makes the read raise.                                                   *)
(***************************************************************************)
C5_MetadataOnlySkipsPayload ==
  /\ (rw.metadata_only /\ rw.pc # "idle") =>
       /\ ~rw.parsed
       /\ rw.data = PyNone
       /\ rw.exc # "JSONDecodeError"
  /\ \A enc \in Encodings :
       (Finished(enc) /\ job.metadata_only) =>
         /\ ~results[enc].parsed
         /\ results[enc].data = PyNone
         /\ results[enc].exc = "none"

C5_Witness ==
  /\ job.metadata_only
  /\ Finished("plain")
  /\ job.src.fmt = "versioned"
  /\ ~job.src.payloadOk
  /\ ~json_loads(ReadLine(job.src.text, ReadLine(job.src.text, ReadLine(job.src.text, 1).pos).pos).line).ok
  /\ results["plain"].exc = "none"

(***************************************************************************)
(* C6.  Whether read_workspace decompresses depends on the first two bytes *)
(* of the file only (1F 8B), not on its name, and the gzip and the plain   *)
(* encoding of one content give the same version, metadata and data.       *)
(***************************************************************************)
C6_EncodingByMagicOnly ==
  /\ rw.pc \in {"open_stream", "try", "fallback", "versioned", "returned"} =>
       rw.gz = (Len(rw.bytes) >= 2 /\ rw.bytes[1] = 31 /\ rw.bytes[2] = 139)
  /\ \A enc \in Encodings : Finished(enc) => results[enc].gz = (enc = "gzip")
  /\ (Finished("plain") /\ Finished("gzip")) =>
       /\ results["plain"].exc = results["gzip"].exc
       /\ results["plain"].version = results["gzip"].version
       /\ results["plain"].metadata = results["gzip"].metadata
       /\ results["plain"].data = results["gzip"].data

C6_Witness ==
  /\ Finished("plain")
  /\ Finished("gzip")
  /\ job.path = <<"a", ".", "g", "z">>
  /\ job.src.fmt = "versioned"
  /\ ~job.metadata_only
  /\ results["gzip"].exc = "none"
  /\ results["gzip"].data.kind = "arr"

(***************************************************************************)
(* C7.  As claimed: in a returned record, files has one entry per child    *)
(* that is not a directory and whose name ends with .grapycal, and dirs    *)
(* one record per child directory.                                         *)
(***************************************************************************)
C7_OneEntryPerNonDirectory ==
  ret # <<>> =>
    /\ EntryNames(ret[1].rec.files) =
         QuotedNames(SelectSeq(ret[1].listing,
                       LAMBDA e : e.kind # "dir" /\ EndsWith(e.name, Extension)))
    /\ RecordNames(ret[1].rec.dirs) =
         PlainNames(SelectSeq(ret[1].listing, LAMBDA e : e.kind = "dir"))

(***************************************************************************)
(* C7, amended.  In a returned record, files has one entry per child that  *)
(* is a regular file and whose name ends with .grapycal, in listing order, *)
(* and dirs one record per child directory, whatever its name; every other *)
(* child (other extension, or neither file nor directory) is ignored.      *)
(***************************************************************************)
C7_OneEntryPerRegularFile ==
  ret # <<>> =>
    /\ EntryNames(ret[1].rec.files) =
         QuotedNames(SelectSeq(ret[1].listing,
                       LAMBDA e : e.kind = "file" /\ EndsWith(e.name, Extension)))
    /\ RecordNames(ret[1].rec.dirs) =
         PlainNames(SelectSeq(ret[1].listing, LAMBDA e : e.kind = "dir"))

C7_Witness ==
  /\ ret # <<>>
  /\ \E i, j \in DOMAIN ret[1].listing :
       /\ ret[1].listing[i].kind = "file"
       /\ EndsWith(ret[1].listing[i].name, Extension)
       /\ ret[1].listing[j].kind = "other"
       /\ EndsWith(ret[1].listing[j].name, Extension)
  /\ Len(ret[1].rec.files) = 1
  /\ ret[1].rec.dirs = <<>>

(***************************************************************************)
(* C8.  Once a read or a listing has failed, the exception stays the same, *)
(* no further entry is listed or read, the process_dir calls are only left,*)
(* and metadata.json is untouched; metadata.json is opened only after the  *)
(* whole walk has returned.                                                *)
(***************************************************************************)
C8_FailureAbortsBeforeOutput ==
  /\ [](error # "none" =>
          /\ mainpc \in {"walking", "failed"}
          /\ output.state \in {"absent", "stale"})
  /\ [](output.state \in {"empty", "written"} =>
          /\ metadata # <<>>
          /\ stack = <<>>
          /\ error = "none")
  /\ [][(mainpc = "walking" /\ rw.pc = "raised") => error' = rw.exc]_vars
  /\ [][error # "none" =>
          /\ error' = error
          /\ nodes' = nodes
          /\ rw' = rw
          /\ last' = last
          /\ output' = output
          /\ metadata' = metadata
          /\ (stack' = stack \/ stack' = PopOf(stack))]_vars

C8_Witness ==
  /\ mainpc = "failed"
  /\ error = "OSError"
  /\ last.outcome = "raised"
  /\ output.state = "stale"
  /\ nodes >= 2

(***************************************************************************)
(* C9.  As claimed: a versioned file whose line 2 is valid JSON gets an    *)
(* entry, whatever the shape of that header.                               *)
(***************************************************************************)
C9_AnyJsonHeaderAccepted ==
  (last.outcome # "none" /\ last.fault = "none" /\ IsVersionedBuild(last.src)
     /\ json_loads(Line2(last.src.text)).ok)
    => last.outcome = "appended"

(***************************************************************************)
(* C9, amended.  A versioned file whose line 2 is a JSON object gets an    *)
(* entry, whatever keys the object has: the entry is that object with the  *)
(* name set.                                                               *)
(***************************************************************************)
C9_AnyObjectHeaderAccepted ==
  (last.outcome # "none" /\ last.fault = "none" /\ IsVersionedBuild(last.src)
     /\ json_loads(Line2(last.src.text)).kind = "obj")
    => /\ last.outcome = "appended"
       /\ last.entry = SetName(json_loads(Line2(last.src.text)).obj, last.p)

C9_Witness ==
  /\ last.outcome = "appended"
  /\ last.src.fmt = "versioned"
  /\ KeyExt \notin DOMAIN json_loads(Line2(last.src.text)).obj
  /\ DOMAIN last.entry = {KeyName}

(***************************************************************************)
(* C10.  read_workspace holds at most one handle at a time, the probe      *)
(* while it reads the magic number and the stream while it reads the text, *)
(* and none once it has returned or raised.                                *)
(***************************************************************************)
C10_HandlesClosed ==
  /\ Cardinality(handles) <= 1
  /\ rw.pc \in {"idle", "open_probe", "open_stream", "returned", "raised"} => handles = {}
  /\ rw.pc = "read_magic" => handles = {"probe"}
  /\ rw.pc \in {"try", "fallback", "versioned"} => handles = {"stream"}

C10_Witness ==
  /\ rw.pc = "raised"
  /\ rw.exc = "JSONDecodeError"
  /\ rw.parsed
  /\ handles = {}
====
